---------------------------- MODULE Spec2Model ----------------------------
(***************************************************************************)
(* The turn-taking conversation controller of ActiveCallScreen.tsx and the *)
(* session hand-off of App (src/unnamed/part_000).                         *)
(*                                                                         *)
(* One step of the model is one task of the browser's event loop: a DOM    *)
(* event handler, a timer callback, a recognition or recorder event, or    *)
(* the continuation of an async function after the promise it awaits has   *)
(* settled, together with the micro-tasks that continuation runs up to its *)
(* next real suspension.  The React state variables hold the value the     *)
(* next render commits; a handler reached from the DOM reads that value,   *)
(* an async continuation or a timer callback reads the values of the       *)
(* render it was created in, which the model keeps as a closure record.    *)
(*                                                                         *)
(* A text is a sequence of fragments (strings); the fragment " " is white  *)
(* space.  Message objects live in heap and are named by their index, so   *)
(* that an array copied with [...prev] shares its objects with the         *)
(* original, as it does in JavaScript.                                     *)
(***************************************************************************)
EXTENDS Integers, Sequences, FiniteSets, TLC

\* ---------------------------------------------------------------- constants

\* ActiveCallScreen.tsx:32
MAX_TURNS == 5

\* Bounds of the model (not program constants).
\* User turns one session of the full specification may create.
MaxUserTurns == 2
\* Recognition sessions the user may start in one session.
MaxCaptures == 1
\* Result fragments one recognition session may deliver.
MaxResults == 1
\* Recorder objects one session may create.
MaxRecorders == 2
\* User turns of a session of the typed specification.
MaxTypedTurns == 6
\* User turns of a typed session that goes on after the end was scheduled.
MaxLongTurns == 7
\* Calls of handleStartSession in one run of the application.
MaxStarts == 2
\* User turns, and recognition sessions, of a session of the voice specification.
MaxVoiceTurns == 2
\* Result fragments of one recognition session of the voice specification.
MaxVoiceResults == 2
\* Pending 800 ms and 2 s timers at which the user stops tapping "send".
MaxPendingTimers == 1
\* Failing requests, device calls and unrequested recognition ends in one session.
MaxFaults == 1

\* Fixed texts of the program.
InitialMessage == <<"Hello! What would you like to discuss?">>
NoSpeechNotice == <<"No speech detected. Please try again.">>
LoopFallbackText == <<"Sorry, I had trouble connecting. Let's try again.">>
TutorFallbackText == <<"I'm having trouble connecting. Could you say that again?">>
TutorEmptyText == <<"I see. Let's continue.">>
TutorReplyText == <<"That sounds exciting!">>
TextInputFeedback == "Text input provided."
NoFeedbackText == "No feedback available."

\* Inputs the environment draws from.
TextInputs == { <<"a">>, <<" ">> }
Fragments == { "a", " " }
Scores == { 82 }

\* ---------------------------------------------------------------- state

VARIABLES
    \* React state of ActiveCallScreen (lines 12-19)
    messages, isListening, isSpeaking, isProcessing, inputMode, textInput,
    transcript, turnCount,
    \* refs (lines 21-27)
    transcriptRef, audioChunksRef, mediaRecorderRef,
    \* objects
    heap,          \* the Message objects created so far
    recorders,     \* the MediaRecorder objects created so far
    \* SpeechRecognition object: null when unsupported
    recognitionSupported, recState, recResults,
    \* pending tasks
    greeting,      \* the initial-load effect: "tts" while generateSpeech is pending
    exchanges,     \* handleUserResponse invocations that have not finished
    analyses,      \* pending analyzeStudentInput promises
    sources,       \* AudioBufferSourceNodes that are playing
    settleTimers,  \* 800 ms timers of stopListeningAndSend, oldest first
    recordTimers,  \* 100 ms timers of recognition.onstart
    noticeTimers,  \* 2 s timers of the no-speech notice
    endTimers,     \* 1.5 s timers of source.onended, oldest first
    micRequests,   \* pending getUserMedia promises
    \* App
    appState, reportRequests,
    feedback,        \* App's feedback state: null is the empty sequence
    reportsSettled,  \* generateFeedbackReport promises that have settled
    startRequests,   \* pending startConversation promises
    startCalls,          \* calls of handleStartSession so far
    \* the environment (bounds the model)
    limits,        \* what it may do in this session: never changes
    captures,      \* recognition sessions it has started
    faults         \* requests and device calls it has failed

vars == << messages, isListening, isSpeaking, isProcessing, inputMode, textInput,
           transcript, turnCount, transcriptRef, audioChunksRef, mediaRecorderRef,
           heap, recorders, recognitionSupported, recState, recResults,
           greeting, exchanges, analyses, sources, settleTimers, recordTimers,
           noticeTimers, endTimers, micRequests, appState, reportRequests,
           feedback, reportsSettled, startRequests, startCalls,
           limits, captures, faults >>

reactVars == << messages, isListening, isSpeaking, isProcessing, inputMode, textInput,
                transcript, turnCount >>
captureVars == << audioChunksRef, mediaRecorderRef, recorders, recordTimers, micRequests >>
recognitionVars == << recognitionSupported, recState, recResults >>
startVars == << startRequests, startCalls >>
appVars == << appState, reportRequests, feedback, reportsSettled, limits, startVars >>
envVars == << captures, faults >>

\* ---------------------------------------------------------------- texts

IsSpace(f) == f = " "

RECURSIVE TrimStart(_)
TrimStart(t) ==
    IF t # << >> /\ IsSpace(Head(t)) THEN TrimStart(Tail(t)) ELSE t

RECURSIVE TrimEnd(_)
TrimEnd(t) ==
    IF t # << >> /\ IsSpace(t[Len(t)]) THEN TrimEnd(SubSeq(t, 1, Len(t) - 1)) ELSE t

\* String.prototype.trim
Trim(t) == TrimEnd(TrimStart(t))

\* The same test without the trim.
NonBlankUntrimmed(t) == Len(t) > 0

\* text.trim().length > 0 (lines 227 and 243)
NonBlank(t) == Len(Trim(t)) > 0

\* ---------------------------------------------------------------- messages

\* An absent optional field is the empty sequence, a present one a 1-tuple.
Undefined == << >>
Some(v) == << v >>

\* Date.now(): a logical clock, the number of Message objects created so far.
Now == Len(heap)

NewMessage(role, text) ==
    [ role |-> role, text |-> text, timestamp |-> Now, pronunciation |-> Undefined ]

NewGreeting ==
    [ role |-> "model", text |-> InitialMessage, timestamp |-> 0,
      pronunciation |-> Undefined ]

\* The value of a history: the array with its objects read through.
Deref(arr) == [ i \in 1..Len(arr) |-> heap[arr[i]] ]

\* The closure of the current render: what a handler created now will read
\* as turnCount and messages however late it runs (lines 150-189, 249-304).
Closure == [ turnCount |-> turnCount, messages |-> messages ]

Mounted == appState = "CALL_ACTIVE"

\* A micro-task is queued: the promise of analyzeStudentInput(text, null) is
\* already resolved, so its .then callback runs before any other task.
MicrotaskPending == \E a \in analyses : a.settled
\* The same with every task waiting for all analysis requests.
ReadyAfterAnalyses == Mounted /\ analyses = {}

\* A task may run: the screen is mounted and no micro-task is queued.
Ready == Mounted /\ ~MicrotaskPending


\* An outcome the environment chooses: a failing one is counted.
Outcome(failed) ==
    /\ failed => faults < limits.faults
    /\ faults' = IF failed THEN faults + 1 ELSE faults

UserTurns == Cardinality({ i \in 1..Len(heap) : heap[i].role = "user" })

\* ---------------------------------------------------------------- playback

\* playAudio (lines 150-189) called from the render whose closure is cl.
\* outcome "started": source.start(0) ran; "caught": decoding or starting the
\* source threw inside the try block.  A suspended context is resumed within
\* the same step.
PlayAudio(cl, exchange, outcome) ==
    IF outcome = "started"
    THEN /\ isSpeaking' = TRUE
         /\ sources' = sources \cup { [ closure |-> cl, exchange |-> exchange ] }
    ELSE /\ isSpeaking' = FALSE
         /\ UNCHANGED sources

PlayOutcomes == { "started", "caught" }

\* An onended whose threshold is two turns lower.
SourceEndedEarly(s) ==
    /\ Ready
    /\ s \in sources
    /\ sources' = sources \ { s }
    /\ isSpeaking' = FALSE
    /\ endTimers' = IF s.closure.turnCount >= MAX_TURNS - 2
                    THEN Append(endTimers, s.closure.messages)
                    ELSE endTimers
    /\ UNCHANGED << messages, isListening, isProcessing, inputMode, textInput,
                    transcript, turnCount, transcriptRef, heap, greeting, exchanges,
                    analyses, settleTimers, noticeTimers, captureVars,
                    recognitionVars, appVars, envVars >>

\* An onended that starts the recognition again when the playback is over.
SourceEndedAutoListen(s) ==
    /\ Ready
    /\ s \in sources
    /\ sources' = sources \ { s }
    /\ isSpeaking' = FALSE
    /\ endTimers' = IF s.closure.turnCount >= MAX_TURNS
                    THEN Append(endTimers, s.closure.messages)
                    ELSE endTimers
    /\ recState' = IF recognitionSupported /\ recState = "idle" /\ inputMode = "voice"
                   THEN "starting" ELSE recState
    /\ UNCHANGED << messages, isListening, isProcessing, inputMode, textInput,
                    transcript, turnCount, transcriptRef, heap, greeting, exchanges,
                    analyses, settleTimers, noticeTimers, captureVars,
                    recognitionSupported, recResults, appVars, envVars >>

\* source.onended (lines 178-184)
SourceEnded(s) ==
    /\ Ready
    /\ s \in sources
    /\ sources' = sources \ { s }
    /\ isSpeaking' = FALSE
    /\ endTimers' = IF s.closure.turnCount >= MAX_TURNS
                    THEN Append(endTimers, s.closure.messages)
                    ELSE endTimers
    /\ UNCHANGED << messages, isListening, isProcessing, inputMode, textInput,
                    transcript, turnCount, transcriptRef, heap, greeting, exchanges,
                    analyses, settleTimers, noticeTimers, captureVars,
                    recognitionVars, appVars, envVars >>

\* ---------------------------------------------------------------- initial load

\* The effect of lines 192-206 after generateSpeech(initialMessage) resolved:
\* playAudio of the first render, whose turnCount is 0 and messages is [].
GreetingSpeechResolve(outcome) ==
    /\ Ready
    /\ greeting = "tts"
    /\ greeting' = "done"
    /\ Outcome(outcome # "started")
    /\ PlayAudio([ turnCount |-> 0, messages |-> << >> ], 0, outcome)
    /\ UNCHANGED << messages, isListening, isProcessing, inputMode, textInput,
                    transcript, turnCount, transcriptRef, heap, exchanges, analyses,
                    settleTimers, noticeTimers, endTimers, captureVars,
                    recognitionVars, appVars, captures >>

\* The same with isSpeaking raised before the failure.
GreetingSpeechRejectWhileSpeaking ==
    /\ Ready
    /\ greeting = "tts"
    /\ greeting' = "done"
    /\ Outcome(TRUE)
    /\ isSpeaking' = TRUE
    /\ UNCHANGED << messages, isListening, isProcessing, inputMode, textInput,
                    transcript, turnCount, transcriptRef, heap, exchanges, analyses,
                    sources, settleTimers, noticeTimers, endTimers, captureVars,
                    recognitionVars, appVars, captures >>

\* generateSpeech(initialMessage) rejected: the catch of lines 200-202 logs.
GreetingSpeechReject ==
    /\ Ready
    /\ greeting = "tts"
    /\ greeting' = "done"
    /\ Outcome(TRUE)
    /\ UNCHANGED << reactVars, transcriptRef, heap, exchanges, analyses, sources,
                    settleTimers, noticeTimers, endTimers, captureVars,
                    recognitionVars, appVars, captures >>

\* ---------------------------------------------------------------- handleUserResponse

\* The same call with the user message created but its append left out.
HandleUserResponseWithoutAppend(text, hasAudio, cl) ==
    LET msg == Len(heap) + 1
        e == [ msg |-> msg, text |-> text, hasAudio |-> hasAudio,
               nextTurn |-> cl.turnCount + 1,
               closure |-> cl,
               blob |-> IF hasAudio THEN audioChunksRef ELSE << >>,
               audioBase64 |-> Undefined,
               responseText |-> Undefined,
               pc |-> IF hasAudio /\ Len(audioChunksRef) > 0 THEN "encode" ELSE "reply" ]
    IN  /\ isProcessing' = TRUE
        /\ turnCount' = cl.turnCount + 1
        /\ heap' = Append(heap, NewMessage("user", text))
        /\ messages' = messages
        /\ transcript' = << >>
        /\ transcriptRef' = << >>
        /\ exchanges' = exchanges \cup { e }
        /\ analyses' = IF e.pc = "encode" THEN analyses
                       ELSE analyses \cup { [ msg |-> msg, text |-> text,
                                               audioBase64 |-> Undefined,
                                               settled |-> TRUE ] }

\* Lines 249-271 and 286-288: the synchronous part of handleUserResponse run
\* from a render whose closure is cl.  With audio to encode it suspends at
\* blobToBase64 (pc "encode"); without, it calls analyzeStudentInput(text, null),
\* whose promise is already resolved, and getTutorResponse (pc "reply").
HandleUserResponse(text, hasAudio, cl) ==
    LET msg == Len(heap) + 1
        encode == hasAudio /\ Len(audioChunksRef) > 0
        e == [ msg |-> msg, text |-> text, hasAudio |-> hasAudio,
               nextTurn |-> cl.turnCount + 1,
               closure |-> cl,
               blob |-> IF hasAudio THEN audioChunksRef ELSE << >>,
               audioBase64 |-> Undefined,
               responseText |-> Undefined,
               pc |-> IF encode THEN "encode" ELSE "reply" ]
    IN  /\ isProcessing' = TRUE
        /\ turnCount' = cl.turnCount + 1
        /\ heap' = Append(heap, NewMessage("user", text))
        /\ messages' = Append(messages, msg)
        /\ transcript' = << >>
        /\ transcriptRef' = << >>
        /\ exchanges' = exchanges \cup { e }
        /\ analyses' = IF encode THEN analyses
                       ELSE analyses \cup { [ msg |-> msg, text |-> text,
                                               audioBase64 |-> Undefined,
                                               settled |-> TRUE ] }

\* The same with the fallback turn put in place of the last entry.
LoopCatchReplacingLast(e) ==
    /\ heap' = Append(heap, NewMessage("model", LoopFallbackText))
    /\ messages' = Append(SubSeq(messages, 1, Len(messages) - 1), Len(heap) + 1)
    /\ isProcessing' = FALSE
    /\ exchanges' = exchanges \ { e }

\* The same without the setIsProcessing(false) of catch and finally.
LoopCatchKeepsProcessing(e) ==
    /\ heap' = Append(heap, NewMessage("model", LoopFallbackText))
    /\ messages' = Append(messages, Len(heap) + 1)
    /\ isProcessing' = isProcessing
    /\ exchanges' = exchanges \ { e }

\* The catch and finally blocks of lines 297-303.
LoopCatch(e) ==
    /\ heap' = Append(heap, NewMessage("model", LoopFallbackText))
    /\ messages' = Append(messages, Len(heap) + 1)
    /\ isProcessing' = FALSE
    /\ exchanges' = exchanges \ { e }

\* blobToBase64 resolved (line 266): lines 271 and 287-288 run.
EncodeResolve(e) ==
    /\ Ready
    /\ e \in exchanges /\ e.pc = "encode"
    /\ exchanges' = (exchanges \ { e })
                      \cup { [ e EXCEPT !.audioBase64 = Some(e.blob), !.pc = "reply" ] }
    /\ analyses' = analyses \cup { [ msg |-> e.msg, text |-> e.text,
                                     audioBase64 |-> Some(e.blob),
                                     settled |-> FALSE ] }
    /\ UNCHANGED << reactVars, transcriptRef, heap, greeting, sources, settleTimers,
                    noticeTimers, endTimers, captureVars, recognitionVars, appVars, envVars >>

\* blobToBase64 rejected (reader.onerror, line 144).
EncodeReject(e) ==
    /\ Ready
    /\ e \in exchanges /\ e.pc = "encode"
    /\ LoopCatch(e)
    /\ Outcome(TRUE)
    /\ UNCHANGED << isListening, isSpeaking, inputMode, textInput, transcript,
                    turnCount, transcriptRef, greeting, analyses, sources,
                    settleTimers, noticeTimers, endTimers, captureVars,
                    recognitionVars, appVars, captures >>

\* getTutorResponse (types.ts line 100)
IsLastTurn(currentTurn, maxTurns) == currentTurn >= maxTurns

\* The instruction line of the prompt (types.ts line 114).
TutorInstruction(currentTurn, maxTurns) ==
    IF IsLastTurn(currentTurn, maxTurns)
    THEN "Wrap up the conversation warmly. Do not ask a new question."
    ELSE "Ask a follow-up question."

\* currentHistory of line 287 for exchange e: the messages of the render
\* handleUserResponse was created in, followed by the new user turn.
CurrentHistory(e) == Append(e.closure.messages, e.msg)

\* What the call of line 288 puts into the prompt of exchange e
\* (types.ts lines 102-116): "Current Turn: n of m" and the instruction.
TutorRequest(e) ==
    [ turnCount |-> e.nextTurn, maxTurns |-> MAX_TURNS,
      instruction |-> TutorInstruction(e.nextTurn, MAX_TURNS) ]

\* getTutorResponse (types.ts lines 132-141): the text it resolves to.  It
\* never rejects: a failed request is caught inside and becomes a fixed text.
TutorResponseText(outcome) ==
    CASE outcome = "ok" -> TutorReplyText
      [] outcome = "empty" -> TutorEmptyText
      [] outcome = "error" -> TutorFallbackText

TutorOutcomes == { "ok", "empty", "error" }

\* getTutorResponse resolved: lines 290-294.
ReplyResolve(e, outcome) ==
    /\ Ready
    /\ e \in exchanges /\ e.pc = "reply"
    /\ Outcome(outcome # "ok")
    /\ heap' = Append(heap, NewMessage("model", TutorResponseText(outcome)))
    /\ messages' = Append(messages, Len(heap) + 1)
    /\ exchanges' = (exchanges \ { e })
                      \cup { [ e EXCEPT !.responseText = Some(TutorResponseText(outcome)),
                                        !.pc = "tts" ] }
    /\ UNCHANGED << isListening, isSpeaking, isProcessing, inputMode, textInput,
                    transcript, turnCount, transcriptRef, greeting, analyses, sources,
                    settleTimers, noticeTimers, endTimers, captureVars,
                    recognitionVars, appVars, captures >>

\* generateSpeech resolved: line 295 plays with the playAudio of the render
\* the exchange was started from, then the finally block runs.
SpeechResolve(e, outcome) ==
    /\ Ready
    /\ e \in exchanges /\ e.pc = "tts"
    /\ Outcome(outcome # "started")
    /\ PlayAudio(e.closure, e.msg, outcome)
    /\ isProcessing' = FALSE
    /\ exchanges' = exchanges \ { e }
    /\ UNCHANGED << messages, isListening, inputMode, textInput, transcript,
                    turnCount, transcriptRef, heap, greeting, analyses,
                    settleTimers, noticeTimers, endTimers, captureVars,
                    recognitionVars, appVars, captures >>

\* generateSpeech rejected (types.ts lines 227-235): catch and finally.
SpeechReject(e) ==
    /\ Ready
    /\ e \in exchanges /\ e.pc = "tts"
    /\ LoopCatch(e)
    /\ Outcome(TRUE)
    /\ UNCHANGED << isListening, isSpeaking, inputMode, textInput, transcript,
                    turnCount, transcriptRef, greeting, analyses, sources,
                    settleTimers, noticeTimers, endTimers, captureVars,
                    recognitionVars, appVars, captures >>

\* ---------------------------------------------------------------- analysis

\* analyzeStudentInput (types.ts lines 147-204): what the promise resolves to.
\* Without audio the sentinel; with audio the parsed result, or undefined
\* when the request or the parse failed.  The field request names the call
\* that produced the result: it is not program data.
AnalysisResult(a, outcome) ==
    IF a.audioBase64 = Undefined
    THEN Some([ score |-> -1, feedback |-> TextInputFeedback, request |-> a.msg ])
    ELSE IF outcome # Undefined
         THEN Some([ score |-> outcome[1], feedback |-> NoFeedbackText,
                     request |-> a.msg ])
         ELSE Undefined

\* The score the request answered with, or none when it failed.
AnalysisOutcomes == { Some(n) : n \in Scores } \cup { Undefined }

\* A scan that matches on role and text alone.
ScanIgnoringScore(updated, i, text) ==
    LET hits == { k \in 1..i : /\ heap[updated[k]].role = "user"
                               /\ heap[updated[k]].text = text }
    IN  IF hits = {} THEN 0 ELSE CHOOSE k \in hits : \A h \in hits : k >= h

\* A scan that starts at the oldest entry instead.
ScanOldestFirst(updated, i, text) ==
    LET hits == { k \in 1..i : /\ heap[updated[k]].role = "user"
                               /\ heap[updated[k]].text = text
                               /\ heap[updated[k]].pronunciation = Undefined }
    IN  IF hits = {} THEN 0 ELSE CHOOSE k \in hits : \A h \in hits : k <= h

\* The loop of lines 275-280: the index of the entry it updates, 0 if none.
RECURSIVE ScanBack(_, _, _)
ScanBack(updated, i, text) ==
    IF i = 0 THEN 0
    ELSE IF /\ heap[updated[i]].role = "user"
            /\ heap[updated[i]].text = text
            /\ heap[updated[i]].pronunciation = Undefined
         THEN i
         ELSE ScanBack(updated, i - 1, text)

MergeTarget(text) == ScanBack(messages, Len(messages), text)

\* The .then callback of lines 271-284 run with the value the promise of
\* analysis a resolved to.  The updater copies the array and writes into
\* the object it found, so messages holds the same objects afterwards.
AnalysisThen(a, pronunciation) ==
    /\ analyses' = analyses \ { a }
    /\ heap' = IF pronunciation # Undefined /\ MergeTarget(a.text) > 0
               THEN [ heap EXCEPT ![messages[MergeTarget(a.text)]].pronunciation =
                                      pronunciation ]
               ELSE heap
    /\ UNCHANGED << reactVars, transcriptRef, greeting, exchanges, sources,
                    settleTimers, noticeTimers, endTimers, captureVars,
                    recognitionVars, appVars, captures >>

\* analyzeStudentInput(text, null) returned a resolved promise: the callback
\* runs as a micro-task of the task that called handleUserResponse.
AnalysisMicrotask(a) ==
    /\ Mounted
    /\ a \in analyses /\ a.settled
    /\ AnalysisThen(a, AnalysisResult(a, Undefined))
    /\ UNCHANGED faults

\* The analysis request of a turn with audio settled.
AnalysisResolve(a, outcome) ==
    /\ Ready
    /\ a \in analyses /\ ~a.settled
    /\ AnalysisThen(a, AnalysisResult(a, outcome))
    /\ Outcome(outcome = Undefined)

\* ---------------------------------------------------------------- text entry

\* disabled of the text input (line 451) and of the send button (line 456)
TextInputDisabled == isProcessing \/ isSpeaking
\* The send button without the isSpeaking test.
SendButtonEnabledWhileSpeaking == Trim(textInput) = << >> \/ isProcessing
SendButtonDisabled == Trim(textInput) = << >> \/ isProcessing \/ isSpeaking

\* onChange of the text input (line 448)
TypeText(t) ==
    /\ Ready
    /\ inputMode = "text"
    /\ ~TextInputDisabled
    /\ textInput # t
    /\ textInput' = t
    /\ UNCHANGED << messages, isListening, isSpeaking, isProcessing, inputMode,
                    transcript, turnCount, transcriptRef, heap, greeting, exchanges,
                    analyses, sources, settleTimers, noticeTimers, endTimers,
                    captureVars, recognitionVars, appVars, envVars >>

\* The same with the audio buffer attached to the typed turn.
HandleSendTextWithAudio ==
    IF NonBlank(textInput)
    THEN /\ HandleUserResponse(textInput, TRUE, Closure)
         /\ textInput' = << >>
    ELSE UNCHANGED << messages, isProcessing, textInput, transcript, turnCount,
                      transcriptRef, heap, exchanges, analyses >>

\* handleSendText (lines 242-247)
HandleSendText ==
    IF NonBlank(textInput)
    THEN /\ HandleUserResponse(textInput, FALSE, Closure)
         /\ textInput' = << >>
    ELSE UNCHANGED << messages, isProcessing, textInput, transcript, turnCount,
                      transcriptRef, heap, exchanges, analyses >>

\* onClick of the send button (lines 454-457)
SendButtonClick ==
    /\ Ready
    /\ inputMode = "text"
    /\ ~SendButtonDisabled
    /\ UserTurns < limits.turns
    /\ HandleSendText
    /\ UNCHANGED << isListening, isSpeaking, inputMode, greeting, sources,
                    settleTimers, noticeTimers, endTimers, captureVars,
                    recognitionVars, appVars, envVars >>

\* onKeyDown of the text input with the Enter key (line 449)
EnterKeyDown ==
    /\ Ready
    /\ inputMode = "text"
    /\ ~TextInputDisabled
    /\ ~isProcessing
    /\ UserTurns < limits.turns
    /\ HandleSendText
    /\ UNCHANGED << isListening, isSpeaking, inputMode, greeting, sources,
                    settleTimers, noticeTimers, endTimers, captureVars,
                    recognitionVars, appVars, envVars >>

\* ---------------------------------------------------------------- App

\* The 1.5 s timer of line 182 fires: onEndSession(messages) is App's
\* handleEndSession (part_000 lines 33-36), which sets FEEDBACK_LOADING and
\* calls generateFeedbackReport(history); the report request reads the
\* history at once (types.ts lines 242-248).  Timers outlive the component.
EndTimerFire ==
    /\ ~MicrotaskPending
    /\ endTimers # << >>
    /\ endTimers' = Tail(endTimers)
    /\ appState' = "FEEDBACK_LOADING"
    /\ reportRequests' = Append(reportRequests, Deref(Head(endTimers)))
    /\ UNCHANGED << reactVars, transcriptRef, heap, greeting, exchanges, analyses,
                    sources, settleTimers, noticeTimers, captureVars,
                    recognitionVars, envVars, limits, feedback, reportsSettled,
                    startVars >>

\* The report generateContent answered with (types.ts lines 263-310).
ServiceReport ==
    [ overallComments |-> Some("Good fluency."),
      corrections |-> Some(<< >>),
      vocabulary |-> Some(<< >>),
      pronunciationReview |-> Some([ averageScore |-> 82, tips |-> << >> ]) ]

\* JSON.parse("{}") as SessionFeedback: an object without any field.
EmptyReport ==
    [ overallComments |-> Undefined, corrections |-> Undefined,
      vocabulary |-> Undefined, pronunciationReview |-> Undefined ]

\* The report of the catch of types.ts lines 315-322.
UnparsableReport ==
    [ overallComments |-> Some("Could not generate feedback."),
      corrections |-> Some(<< >>),
      vocabulary |-> Some(<< >>),
      pronunciationReview |-> Some([ averageScore |-> 0, tips |-> << >> ]) ]

\* The report of the catch of handleEndSession (part_000 lines 39-47).
FallbackReport ==
    [ overallComments |-> Some("Great practice session!"),
      corrections |-> Some(<< >>),
      vocabulary |-> Some(<< >>),
      pronunciationReview |-> Undefined ]

\* generateFeedbackReport (types.ts lines 313-323): what it resolves to when
\* the request was answered.  "ok": a report; "empty": no response text, so
\* "{}" is parsed; "unparsable": JSON.parse throws.
ReportOutcomes == { "ok", "empty", "unparsable" }

ParsedReport(outcome) ==
    CASE outcome = "ok" -> ServiceReport
      [] outcome = "empty" -> EmptyReport
      [] outcome = "unparsable" -> UnparsableReport

\* avgScore of FeedbackScreen (lines 12-14)
AvgScore(report) ==
    IF report.pronunciationReview = Undefined THEN 0
    ELSE report.pronunciationReview[1].averageScore

\* generateFeedbackReport resolved: part_000 lines 36-38.
ReportResolve(outcome) ==
    /\ reportsSettled < Len(reportRequests)
    /\ reportsSettled' = reportsSettled + 1
    /\ Outcome(outcome # "ok")
    /\ feedback' = Some(ParsedReport(outcome))
    /\ appState' = "FEEDBACK_VIEW"
    /\ UNCHANGED << reactVars, transcriptRef, heap, greeting, exchanges, analyses,
                    sources, settleTimers, noticeTimers, endTimers, captureVars,
                    recognitionVars, captures, limits, reportRequests,
                    startVars >>

\* generateFeedbackReport rejected: the catch of part_000 lines 39-48.
ReportReject ==
    /\ reportsSettled < Len(reportRequests)
    /\ reportsSettled' = reportsSettled + 1
    /\ Outcome(TRUE)
    /\ feedback' = Some(FallbackReport)
    /\ appState' = "FEEDBACK_VIEW"
    /\ UNCHANGED << reactVars, transcriptRef, heap, greeting, exchanges, analyses,
                    sources, settleTimers, noticeTimers, endTimers, captureVars,
                    recognitionVars, captures, limits, reportRequests,
                    startVars >>


\* ---------------------------------------------------------------- App

\* handleStartSession (part_000 lines 14-22) from SetupScreen's button with
\* a topic entered: the button stays enabled while a request is pending.
HandleStartSession ==
    /\ appState = "SETUP"
    /\ startCalls < MaxStarts
    /\ startCalls' = startCalls + 1
    /\ startRequests' = startRequests + 1
    /\ UNCHANGED << reactVars, transcriptRef, heap, greeting, exchanges, analyses,
                    sources, settleTimers, noticeTimers, endTimers, captureVars,
                    recognitionVars, envVars, appState, reportRequests, feedback,
                    reportsSettled, limits >>

\* startConversation resolved: part_000 lines 24-26.  Out of CALL_ACTIVE a
\* new ActiveCallScreen mounts, with fresh state, its greeting appended and
\* generateSpeech pending; what the previous instance left running no
\* longer reaches a mounted component.  In CALL_ACTIVE only the
\* initialMessage prop changes, which no effect depends on (line 206).
StartConversationResolve ==
    /\ ~MicrotaskPending
    /\ startRequests > 0
    /\ startRequests' = startRequests - 1
    /\ appState' = "CALL_ACTIVE"
    /\ IF appState = "CALL_ACTIVE"
       THEN UNCHANGED << reactVars, transcriptRef, heap, greeting, exchanges,
                         analyses, sources, audioChunksRef, mediaRecorderRef,
                         recState, recResults >>
       ELSE /\ heap' = Append(heap, NewGreeting)
            /\ messages' = << Len(heap) + 1 >>
            /\ isListening' = FALSE /\ isSpeaking' = FALSE /\ isProcessing' = FALSE
            /\ inputMode' = "voice"
            /\ textInput' = << >> /\ transcript' = << >> /\ turnCount' = 0
            /\ transcriptRef' = << >> /\ audioChunksRef' = << >>
            /\ mediaRecorderRef' = 0
            /\ recState' = "idle" /\ recResults' = << >>
            /\ greeting' = "tts"
            /\ exchanges' = {} /\ analyses' = {} /\ sources' = {}
    /\ UNCHANGED << recorders, recognitionSupported, settleTimers, recordTimers,
                    noticeTimers, endTimers, micRequests, reportRequests, feedback,
                    reportsSettled, limits, startCalls, envVars >>

\* startConversation rejected: the catch of part_000 lines 27-30 logs and
\* alerts.
StartConversationReject ==
    /\ ~MicrotaskPending
    /\ startRequests > 0
    /\ startRequests' = startRequests - 1
    /\ Outcome(TRUE)
    /\ UNCHANGED << reactVars, transcriptRef, heap, greeting, exchanges, analyses,
                    sources, settleTimers, noticeTimers, endTimers, captureVars,
                    recognitionVars, captures, appState, reportRequests, feedback,
                    reportsSettled, limits, startCalls >>

\* handleRestart (part_000 lines 51-55) from the button of FeedbackScreen,
\* which App renders in FEEDBACK_VIEW for a report that is not null
\* (line 80) and which renders with corrections and vocabulary present
\* (FeedbackScreen.tsx lines 96 and 119).
HandleRestart ==
    /\ appState = "FEEDBACK_VIEW"
    /\ feedback # Undefined
    /\ feedback[1].corrections # Undefined /\ feedback[1].vocabulary # Undefined
    /\ appState' = "SETUP"
    /\ feedback' = Undefined
    /\ UNCHANGED << reactVars, transcriptRef, heap, greeting, exchanges, analyses,
                    sources, settleTimers, noticeTimers, endTimers, captureVars,
                    recognitionVars, envVars, reportRequests, reportsSettled,
                    limits, startVars >>

\* ---------------------------------------------------------------- recognition

\* recognition.stop(): ignored unless the session is running.
RecognitionStop == IF recState = "active" THEN "stopping" ELSE recState

\* The transcript of the newest result alone.
NewestFragment(results) ==
    IF results = << >> THEN << >> ELSE results[Len(results)]

\* The concatenation of lines 80-84 over event.results.
RECURSIVE CurrentTranscript(_)
CurrentTranscript(results) ==
    IF results = << >> THEN << >>
    ELSE CurrentTranscript(SubSeq(results, 1, Len(results) - 1)) \o results[Len(results)]

\* stopRecording (lines 127-132): the recorder stops and will deliver its
\* data, the tracks of its stream are stopped.
StopRecording ==
    IF mediaRecorderRef # 0 /\ recorders[mediaRecorderRef].state # "inactive"
    THEN [ recorders EXCEPT ![mediaRecorderRef] =
             [ state |-> "inactive", live |-> FALSE, flush |-> TRUE ] ]
    ELSE recorders

\* disabled of the microphone button (line 397)
VoiceButtonDisabled == isSpeaking \/ isProcessing

\* startListening (lines 208-216) from a click on the microphone button
\* while it shows the microphone.  start() throws unless the recognition
\* object is idle; the catch logs.
StartListening ==
    /\ Ready
    /\ inputMode = "voice"
    /\ ~VoiceButtonDisabled
    /\ ~isListening
    /\ captures < limits.captures
    /\ LET starts == /\ recognitionSupported
                     /\ ~isListening /\ ~isProcessing /\ ~isSpeaking
                     /\ recState = "idle"
       IN  /\ recState' = IF starts THEN "starting" ELSE recState
           /\ recResults' = IF starts THEN << >> ELSE recResults
           /\ captures' = IF starts THEN captures + 1 ELSE captures
    /\ UNCHANGED << reactVars, transcriptRef, heap, greeting, exchanges, analyses,
                    sources, settleTimers, noticeTimers, endTimers, captureVars,
                    recognitionSupported, appVars, faults >>

\* recognition.onstart (lines 68-77)
RecognitionOnStart ==
    /\ Ready
    /\ recState = "starting"
    /\ recState' = "active"
    /\ isListening' = TRUE
    /\ transcriptRef' = << >>
    /\ transcript' = << >>
    /\ recordTimers' = recordTimers + 1
    /\ UNCHANGED << messages, isSpeaking, isProcessing, inputMode, textInput,
                    turnCount, heap, greeting, exchanges, analyses, sources,
                    settleTimers, noticeTimers, endTimers, audioChunksRef,
                    mediaRecorderRef, recorders, micRequests, recognitionSupported,
                    recResults, appVars, envVars >>

\* recognition.onresult (lines 79-88): the session delivers one more result.
RecognitionOnResult(f) ==
    /\ Ready
    /\ recState \in { "active", "stopping" }
    /\ Len(recResults) < limits.results
    /\ recResults' = Append(recResults, << f >>)
    /\ transcriptRef' = CurrentTranscript(recResults')
    /\ transcript' = CurrentTranscript(recResults')
    /\ UNCHANGED << messages, isListening, isSpeaking, isProcessing, inputMode,
                    textInput, turnCount, heap, greeting, exchanges, analyses,
                    sources, settleTimers, noticeTimers, endTimers, captureVars,
                    recognitionSupported, recState, appVars, envVars >>

\* An onend that submits what was recognised when the session ended on its own.
RecognitionOnEndSubmitting ==
    /\ Ready
    /\ recState \in { "starting", "active", "stopping" }
    /\ recState' = "idle"
    /\ Outcome(recState # "stopping")
    /\ isListening' = FALSE
    /\ recorders' = StopRecording
    /\ recResults' = << >>
    /\ IF recState # "stopping" /\ NonBlank(transcriptRef) /\ UserTurns < limits.turns
       THEN HandleUserResponse(transcriptRef, TRUE, Closure)
       ELSE UNCHANGED << messages, isProcessing, transcript, turnCount, transcriptRef,
                         heap, exchanges, analyses >>
    /\ UNCHANGED << isSpeaking, inputMode, textInput, greeting, sources, settleTimers,
                    noticeTimers, endTimers, audioChunksRef, mediaRecorderRef,
                    recordTimers, micRequests, recognitionSupported, appVars, captures >>

\* recognition.onend (lines 90-95): after stop(), or on its own (error,
\* timeout, permission refused before the session started).
RecognitionOnEnd ==
    /\ Ready
    /\ recState \in { "starting", "active", "stopping" }
    /\ recState' = "idle"
    /\ Outcome(recState # "stopping")
    /\ isListening' = FALSE
    /\ recorders' = StopRecording
    /\ recResults' = << >>
    /\ UNCHANGED << messages, isSpeaking, isProcessing, inputMode, textInput,
                    transcript, turnCount, transcriptRef, heap, greeting, exchanges,
                    analyses, sources, settleTimers, noticeTimers, endTimers,
                    audioChunksRef, mediaRecorderRef, recordTimers, micRequests,
                    recognitionSupported, appVars, captures >>

\* stopListeningAndSend (lines 218-240) from a click on the microphone
\* button while it shows "send": the timer callback keeps this render.
StopListeningAndSend ==
    /\ Ready
    /\ inputMode = "voice"
    /\ ~VoiceButtonDisabled
    /\ isListening
    /\ Len(settleTimers) + noticeTimers < limits.timers
    /\ recState' = IF recognitionSupported THEN RecognitionStop ELSE recState
    /\ settleTimers' = Append(settleTimers, Closure)
    /\ UNCHANGED << reactVars, transcriptRef, heap, greeting, exchanges, analyses,
                    sources, noticeTimers, endTimers, captureVars,
                    recognitionSupported, recResults, appVars, envVars >>

\* The 800 ms callback of lines 225-239, created in the render with closure cl.
SettleTimerFire ==
    /\ Ready
    /\ settleTimers # << >>
    /\ settleTimers' = Tail(settleTimers)
    /\ LET cl == Head(settleTimers)
           finalTranscript == transcriptRef
       IN  IF NonBlank(finalTranscript)
           THEN /\ UserTurns < limits.turns
                /\ HandleUserResponse(finalTranscript, TRUE, cl)
                /\ UNCHANGED noticeTimers
           ELSE /\ transcript' = NoSpeechNotice
                /\ noticeTimers' = noticeTimers + 1
                /\ UNCHANGED << messages, isProcessing, turnCount, transcriptRef,
                                heap, exchanges, analyses >>
    /\ UNCHANGED << isListening, isSpeaking, inputMode, textInput, greeting, sources,
                    endTimers, captureVars, recognitionVars, appVars, envVars >>

\* The 2 s callback of lines 233-237.
NoticeTimerFire ==
    /\ Ready
    /\ noticeTimers > 0
    /\ noticeTimers' = noticeTimers - 1
    /\ transcript' = IF transcriptRef = NoSpeechNotice THEN << >> ELSE transcript
    /\ UNCHANGED << messages, isListening, isSpeaking, isProcessing, inputMode,
                    textInput, turnCount, transcriptRef, heap, greeting, exchanges,
                    analyses, sources, settleTimers, endTimers, captureVars,
                    recognitionVars, appVars, envVars >>

\* The same without the branch that stops a running capture.
ToggleModeWithoutStop ==
    /\ Ready
    /\ inputMode' = IF inputMode = "voice" THEN "text" ELSE "voice"
    /\ UNCHANGED << messages, isListening, isSpeaking, isProcessing, textInput,
                    transcript, turnCount, transcriptRef, heap, greeting, exchanges,
                    analyses, sources, settleTimers, noticeTimers, endTimers,
                    captureVars, recognitionVars, appVars, envVars >>

\* toggleMode (lines 306-312)
ToggleMode ==
    /\ Ready
    /\ recState' = IF isListening /\ recognitionSupported THEN RecognitionStop
                   ELSE recState
    /\ isListening' = FALSE
    /\ inputMode' = IF inputMode = "voice" THEN "text" ELSE "voice"
    /\ UNCHANGED << messages, isSpeaking, isProcessing, textInput, transcript,
                    turnCount, transcriptRef, heap, greeting, exchanges, analyses,
                    sources, settleTimers, noticeTimers, endTimers, captureVars,
                    recognitionSupported, recResults, appVars, envVars >>

\* ---------------------------------------------------------------- recorder

\* The 100 ms callback of lines 74-76: startRecording up to getUserMedia.
RecordTimerFire ==
    /\ Ready
    /\ recordTimers > 0
    /\ recordTimers' = recordTimers - 1
    /\ micRequests' = IF mediaRecorderRef # 0
                         /\ recorders[mediaRecorderRef].state = "recording"
                      THEN micRequests ELSE micRequests + 1
    /\ UNCHANGED << reactVars, transcriptRef, heap, greeting, exchanges, analyses,
                    sources, settleTimers, noticeTimers, endTimers, audioChunksRef,
                    mediaRecorderRef, recorders, recognitionVars, appVars, envVars >>

\* getUserMedia resolved: lines 110-121.
MicrophoneGranted ==
    /\ Ready
    /\ micRequests > 0
    /\ Len(recorders) < limits.recorders
    /\ micRequests' = micRequests - 1
    /\ recorders' = Append(recorders,
                           [ state |-> "recording", live |-> TRUE, flush |-> FALSE ])
    /\ audioChunksRef' = << >>
    /\ mediaRecorderRef' = Len(recorders) + 1
    /\ UNCHANGED << reactVars, transcriptRef, heap, greeting, exchanges, analyses,
                    sources, settleTimers, noticeTimers, endTimers, recordTimers,
                    recognitionVars, appVars, envVars >>

\* getUserMedia rejected: the catch of lines 122-124 logs.
MicrophoneDenied ==
    /\ Ready
    /\ micRequests > 0
    /\ Outcome(TRUE)
    /\ micRequests' = micRequests - 1
    /\ UNCHANGED << reactVars, transcriptRef, heap, greeting, exchanges, analyses,
                    sources, settleTimers, noticeTimers, endTimers, audioChunksRef,
                    mediaRecorderRef, recorders, recordTimers, recognitionVars,
                    appVars, captures >>

\* recorder.ondataavailable (lines 114-118) of recorder r after its stop():
\* the chunk, named by its recorder, is pushed when it is not empty.
RecorderData(r, size) ==
    /\ Ready
    /\ r \in 1..Len(recorders)
    /\ recorders[r].flush
    /\ Outcome(size = 0)
    /\ recorders' = [ recorders EXCEPT ![r].flush = FALSE ]
    /\ audioChunksRef' = IF size > 0 THEN Append(audioChunksRef, r) ELSE audioChunksRef
    /\ UNCHANGED << reactVars, transcriptRef, heap, greeting, exchanges, analyses,
                    sources, settleTimers, noticeTimers, endTimers, mediaRecorderRef,
                    recordTimers, micRequests, recognitionVars, appVars, captures >>

\* ---------------------------------------------------------------- specification

\* The state after ActiveCallScreen mounted under App in CALL_ACTIVE: the
\* effects of lines 51-99 and 192-196 have run, generateSpeech is pending.
\* supported: whether the browser has SpeechRecognition (line 61).
Mount(supported, lim) ==
    /\ heap = << NewGreeting >>
    /\ messages = << 1 >>
    /\ isListening = FALSE /\ isSpeaking = FALSE /\ isProcessing = FALSE
    /\ inputMode = "voice"
    /\ textInput = << >> /\ transcript = << >> /\ turnCount = 0
    /\ transcriptRef = << >> /\ audioChunksRef = << >> /\ mediaRecorderRef = 0
    /\ recorders = << >>
    /\ recognitionSupported = supported
    /\ recState = "idle" /\ recResults = << >>
    /\ greeting = "tts"
    /\ exchanges = {} /\ analyses = {} /\ sources = {}
    /\ settleTimers = << >> /\ recordTimers = 0 /\ noticeTimers = 0
    /\ endTimers = << >> /\ micRequests = 0
    /\ appState = "CALL_ACTIVE" /\ reportRequests = << >>
    /\ feedback = Undefined /\ reportsSettled = 0
    /\ startRequests = 0 /\ startCalls = 1
    /\ limits = lim
    /\ captures = 0 /\ faults = 0

Init ==
    \E supported \in BOOLEAN :
        Mount(supported, [ turns |-> MaxUserTurns, captures |-> MaxCaptures,
                           faults |-> MaxFaults, timers |-> MaxPendingTimers,
                           results |-> MaxResults, recorders |-> MaxRecorders ])

Playback ==
    \/ \E o \in PlayOutcomes : GreetingSpeechResolve(o)
    \/ GreetingSpeechReject
    \/ \E s \in sources : SourceEnded(s)

Exchange ==
    \/ \E e \in exchanges : EncodeResolve(e)
    \/ \E e \in exchanges : EncodeReject(e)
    \/ \E e \in exchanges, o \in TutorOutcomes : ReplyResolve(e, o)
    \/ \E e \in exchanges, o \in PlayOutcomes : SpeechResolve(e, o)
    \/ \E e \in exchanges : SpeechReject(e)
    \/ \E a \in analyses : AnalysisMicrotask(a)
    \/ \E a \in analyses, o \in AnalysisOutcomes : AnalysisResolve(a, o)

Capture ==
    \/ StartListening
    \/ RecognitionOnStart
    \/ \E f \in Fragments : RecognitionOnResult(f)
    \/ RecognitionOnEnd
    \/ StopListeningAndSend
    \/ NoticeTimerFire
    \/ RecordTimerFire
    \/ MicrophoneGranted
    \/ MicrophoneDenied
    \/ \E r \in 1..Len(recorders), size \in { 0, 1 } : RecorderData(r, size)

Next ==
    \/ Playback
    \/ Exchange
    \/ Capture
    \/ ToggleMode
    \/ \E t \in TextInputs : TypeText(t)
    \/ SendButtonClick
    \/ EnterKeyDown
    \/ SettleTimerFire

Spec == Init /\ [][Next]_vars


\* ---------------------------------------------------------------- typed sessions

\* A session in which the user only types: long enough to pass MAX_TURNS.
InitTyped ==
    Mount(TRUE, [ turns |-> MaxTypedTurns, captures |-> 0,
                  faults |-> MaxFaults, timers |-> 0,
                  results |-> 0, recorders |-> 0 ])

NextTyped ==
    \/ Playback
    \/ \E e \in exchanges, o \in TutorOutcomes : ReplyResolve(e, o)
    \/ \E e \in exchanges, o \in PlayOutcomes : SpeechResolve(e, o)
    \/ \E e \in exchanges : SpeechReject(e)
    \/ \E a \in analyses : AnalysisMicrotask(a)
    \/ ToggleMode
    \/ \E t \in TextInputs : TypeText(t)
    \/ SendButtonClick
    \/ EnterKeyDown
    \/ EndTimerFire
    \/ \E o \in ReportOutcomes : ReportResolve(o)
    \/ ReportReject

SpecTyped == InitTyped /\ [][NextTyped]_vars

\* A typed session in which the user goes on after the end was scheduled.
InitTypedLong ==
    Mount(TRUE, [ turns |-> MaxLongTurns, captures |-> 0,
                  faults |-> MaxFaults, timers |-> 0,
                  results |-> 0, recorders |-> 0 ])

SpecTypedLong == InitTypedLong /\ [][NextTyped]_vars

\* ---------------------------------------------------------------- the application

\* App after its first render: SETUP, no ActiveCallScreen yet.
InitApp ==
    /\ heap = << >> /\ messages = << >>
    /\ isListening = FALSE /\ isSpeaking = FALSE /\ isProcessing = FALSE
    /\ inputMode = "voice"
    /\ textInput = << >> /\ transcript = << >> /\ turnCount = 0
    /\ transcriptRef = << >> /\ audioChunksRef = << >> /\ mediaRecorderRef = 0
    /\ recorders = << >>
    /\ recognitionSupported = TRUE
    /\ recState = "idle" /\ recResults = << >>
    /\ greeting = "none"
    /\ exchanges = {} /\ analyses = {} /\ sources = {}
    /\ settleTimers = << >> /\ recordTimers = 0 /\ noticeTimers = 0
    /\ endTimers = << >> /\ micRequests = 0
    /\ appState = "SETUP" /\ reportRequests = << >>
    /\ feedback = Undefined /\ reportsSettled = 0
    /\ startRequests = 0 /\ startCalls = 0
    /\ limits = [ turns |-> MaxTypedTurns, captures |-> 0,
                  faults |-> MaxFaults, timers |-> 0,
                  results |-> 0, recorders |-> 0 ]
    /\ captures = 0 /\ faults = 0

\* The application with typed sessions.
NextApp ==
    \/ HandleStartSession
    \/ StartConversationResolve
    \/ StartConversationReject
    \/ HandleRestart
    \/ NextTyped

SpecApp == InitApp /\ [][NextApp]_vars

\* ---------------------------------------------------------------- voice sessions

\* A session in which the user only speaks and nothing fails.
InitVoice ==
    Mount(TRUE, [ turns |-> MaxVoiceTurns, captures |-> MaxVoiceTurns,
                  faults |-> 0, timers |-> MaxPendingTimers,
                  results |-> MaxVoiceResults, recorders |-> MaxRecorders ])

NextVoice ==
    \/ \E o \in PlayOutcomes : GreetingSpeechResolve(o)
    \/ \E s \in sources : SourceEnded(s)
    \/ \E e \in exchanges : EncodeResolve(e)
    \/ \E e \in exchanges, o \in TutorOutcomes : ReplyResolve(e, o)
    \/ \E e \in exchanges, o \in PlayOutcomes : SpeechResolve(e, o)
    \/ \E a \in analyses : AnalysisMicrotask(a)
    \/ \E a \in analyses, o \in AnalysisOutcomes : AnalysisResolve(a, o)
    \/ StartListening
    \/ RecognitionOnStart
    \/ \E f \in Fragments : RecognitionOnResult(f)
    \/ RecognitionOnEnd
    \/ StopListeningAndSend
    \/ SettleTimerFire
    \/ NoticeTimerFire
    \/ RecordTimerFire
    \/ MicrophoneGranted
    \/ \E r \in 1..Len(recorders), size \in { 0, 1 } : RecorderData(r, size)

SpecVoice == InitVoice /\ [][NextVoice]_vars


\* A voice session in which requests and devices may fail.
InitVoiceFaulty ==
    Mount(TRUE, [ turns |-> MaxVoiceTurns, captures |-> MaxVoiceTurns,
                  faults |-> MaxFaults, timers |-> MaxPendingTimers,
                  results |-> MaxResults, recorders |-> MaxRecorders ])

SpecVoiceFaulty == InitVoiceFaulty /\ [][NextVoice]_vars


\* ---------------------------------------------------------------- whole sessions

\* A session in which the user speaks and types, long enough to pass
\* MAX_TURNS, and nothing fails.
InitSession ==
    Mount(TRUE, [ turns |-> MaxTypedTurns, captures |-> MaxCaptures,
                  faults |-> 0, timers |-> MaxPendingTimers,
                  results |-> MaxResults, recorders |-> MaxCaptures ])

NextSession ==
    \/ NextVoice
    \/ ToggleMode
    \/ \E t \in TextInputs : TypeText(t)
    \/ SendButtonClick
    \/ EnterKeyDown
    \/ EndTimerFire
    \/ \E o \in ReportOutcomes : ReportResolve(o)

SpecSession == InitSession /\ [][NextSession]_vars


\* ---------------------------------------------------------------- claims

\* C1: turnCount never exceeds MAX_TURNS, whatever the user submits.
C1_TurnCountWithinMax == turnCount <= MAX_TURNS

\* Five user turns were answered, every reply was synthesized and played
\* to its end, and nothing failed on the way.
FiveTurnsPlayed ==
    /\ faults = 0
    /\ turnCount = MAX_TURNS
    /\ Len(messages) = 2 * MAX_TURNS + 1
    /\ greeting = "done"
    /\ exchanges = {} /\ sources = {} /\ analyses = {}

\* C2: once the playback of the fifth reply has ended the hand-off is
\* scheduled (or already made); no further user turn is needed for it.
C2_FifthPlaybackEndsSession ==
    (Mounted /\ FiveTurnsPlayed) => endTimers # << >>

\* C3: every history handed to generateFeedbackReport is the session's whole
\* history at the hand-off, in order (the history is frozen from then on).
C3_HandoffPassesFullHistory ==
    \A k \in 1..Len(reportRequests) : reportRequests[k] = Deref(messages)

\* C4: at most one of isListening, isProcessing, isSpeaking is true.
C4_AtMostOneFlag ==
    /\ ~(isListening /\ isProcessing)
    /\ ~(isListening /\ isSpeaking)
    /\ ~(isProcessing /\ isSpeaking)


\* recognition.start() took effect in this step.
CaptureStarted == captures' > captures

\* A typed turn was started in this step.
TextTurnStarted ==
    \E e \in exchanges' : ~e.hasAudio /\ \A x \in exchanges : x.msg # e.msg

\* C5: while isProcessing or isSpeaking is true no microphone tap starts a
\* capture and no text submission (button or Enter) starts a user turn.
C5_ControlsDisabled ==
    [][(isProcessing \/ isSpeaking) => ~CaptureStarted /\ ~TextTurnStarted]_vars

\* The assistant is speaking while typed text waits in the enabled mode.
C5_Witness ==
    /\ isSpeaking
    /\ inputMode = "text"
    /\ NonBlank(textInput)
    /\ UserTurns > 0

Alternates ==
    \A k \in 1..Len(messages) :
        heap[messages[k]].role = IF k % 2 = 1 THEN "model" ELSE "user"

\* C6: when no exchange is in flight the history has 2 * turnCount + 1
\* entries and its roles alternate, starting with the greeting.
C6_HistoryShape ==
    (exchanges = {} /\ ~MicrotaskPending) =>
        /\ Len(messages) = 2 * turnCount + 1
        /\ Alternates

\* The reply request of exchange e failed in this step: its fixed text
\* became the assistant turn.
ReplyFailed(e) ==
    /\ e.pc = "reply"
    /\ \A x \in exchanges' : x.msg # e.msg \/ x.pc # "reply"
    /\ Len(heap') = Len(heap) + 1
    /\ heap'[Len(heap')].text \in { TutorFallbackText, LoopFallbackText }

\* C7: a failed reply request appends one fallback turn, invokes neither
\* synthesis nor playback, and ends the exchange with isProcessing false.
C7_FailedReplyEndsExchange ==
    [][\A e \in exchanges : ReplyFailed(e) =>
          /\ messages' = Append(messages, Len(heap'))
          /\ \A x \in exchanges' : x.msg # e.msg
          /\ sources' = sources
          /\ ~isProcessing']_vars

\* C8: a pronunciation result sits on the turn whose request produced it.
C8_ResultOnOwnTurn ==
    \A i \in 1..Len(heap) :
        heap[i].pronunciation # Undefined => heap[i].pronunciation[1].request = i

\* The positions of the history that hold an unscored user turn with this text.
Unscored(text) ==
    { k \in 1..Len(messages) : /\ heap[messages[k]].role = "user"
                               /\ heap[messages[k]].text = text
                               /\ heap[messages[k]].pronunciation = Undefined }

\* The Message objects this step wrote to.
Written == { i \in 1..Len(heap) : heap'[i] # heap[i] }

\* The promise of analysis a resolved to a result in this step.
ResultArrived(a) == analyses' = analyses \ { a } /\ faults' = faults

\* C9: an arriving result changes exactly one entry, the most recent unscored
\* user turn with its text, only in its pronunciation, and adds no entry.
C9_MergeChangesOneEntry ==
    [][\A a \in analyses : ResultArrived(a) =>
          /\ messages' = messages
          /\ Len(heap') = Len(heap)
          /\ Unscored(a.text) # {}
          /\ LET k == CHOOSE u \in Unscored(a.text) : \A v \in Unscored(a.text) : v <= u
                 m == messages[k]
             IN  /\ Written = { m }
                 /\ heap'[m].pronunciation # Undefined
                 /\ heap'[m] = [ heap[m] EXCEPT !.pronunciation = heap'[m].pronunciation ]
      ]_vars

\* Two user turns with the same text both carry a result, one of them the
\* sentinel of a turn without audio and one a score.
C9_Witness ==
    \E i, j \in 1..Len(heap) :
        /\ i # j
        /\ heap[i].role = "user" /\ heap[j].role = "user"
        /\ heap[i].text = heap[j].text
        /\ heap[i].pronunciation # Undefined /\ heap[j].pronunciation # Undefined
        /\ heap[i].pronunciation[1].score = -1
        /\ heap[j].pronunciation[1].score >= 0

\* The 800 ms timer fires in this step and finds no speech.
EmptySettle ==
    /\ settleTimers # << >>
    /\ settleTimers' = Tail(settleTimers)
    /\ Trim(transcriptRef) = << >>

\* C10: the timer of a stopped capture that finds an empty or blank
\* transcript appends no turn, leaves turnCount, starts no request and
\* changes no interaction flag; with recognition ended and nothing else in
\* flight the system is idle.
C10_EmptyCaptureChangesNothing ==
    [][EmptySettle =>
          /\ messages' = messages /\ heap' = heap
          /\ turnCount' = turnCount
          /\ exchanges' = exchanges /\ analyses' = analyses
          /\ isListening' = isListening
          /\ isProcessing' = isProcessing
          /\ isSpeaking' = isSpeaking
          /\ (recState = "idle" /\ exchanges = {} /\ sources = {}) =>
                 (~isListening' /\ ~isProcessing' /\ ~isSpeaking')
      ]_vars

\* A capture of white space only was stopped and the system is idle.
C10_Witness ==
    /\ transcript = NoSpeechNotice
    /\ noticeTimers > 0
    /\ transcriptRef = << " " >>
    /\ ~isListening /\ ~isProcessing /\ ~isSpeaking
    /\ turnCount = 0 /\ Len(messages) = 1

\* C11: once recognition has ended and no start of a recording is pending
\* any more, no recorder is recording and no microphone track is open.
C11_MicrophoneReleased ==
    (recState = "idle" /\ recordTimers = 0 /\ micRequests = 0) =>
        \A r \in 1..Len(recorders) :
            recorders[r].state # "recording" /\ ~recorders[r].live

\* The chunks an analysis request carries, each named by its recorder.
Chunks(a) ==
    IF a.audioBase64 = Undefined THEN {}
    ELSE { a.audioBase64[1][k] : k \in 1..Len(a.audioBase64[1]) }

\* C12: no chunk is sent with two turns.  A request may stay pending for any
\* time, so the pending requests record what was sent with the turns so far.
C12_ChunksOfOwnCaptureOnly ==
    \A a, b \in analyses : a.msg # b.msg => Chunks(a) \cap Chunks(b) = {}

\* Exchange e was started in this step.
ExchangeStarted(e) == \A x \in exchanges : x.msg # e.msg

\* This step appended an assistant turn (reply or fallback) for exchange e.
AssistantAppendedFor(e) ==
    /\ \A x \in exchanges' : x.msg = e.msg => x.pc # e.pc
    /\ Len(messages') = Len(messages) + 1
    /\ heap'[messages'[Len(messages')]].role = "model"

\* C13: the step that starts an exchange appends its user turn, before any
\* reply is known, and the assistant turn of the exchange is appended only
\* to a history that already holds that user turn.
C13_UserTurnFirst ==
    [][/\ \A e \in exchanges' : ExchangeStarted(e) =>
              /\ messages' = Append(messages, e.msg)
              /\ heap'[e.msg].role = "user"
              /\ e.responseText = Undefined
       /\ \A e \in exchanges : AssistantAppendedFor(e) =>
              \E k \in 1..Len(messages) : messages[k] = e.msg
      ]_vars

\* A reply was appended for an exchange whose user turn precedes it.
C13_Witness ==
    \E e \in exchanges :
        /\ e.pc = "tts"
        /\ \E k \in 1..Len(messages) - 1 :
               /\ messages[k] = e.msg
               /\ heap[messages[k + 1]].role = "model"

\* The analysis request of the turn with message m is pending.
AnalysisPending(m) == \E a \in analyses : a.msg = m /\ ~a.settled

\* C14: with any analysis requests pending, an exchange waiting for its
\* reply can receive and append it, one waiting for the speech can receive
\* and play it, and a playback can end.
C14_AnalysisNeverBlocksReply ==
    (Mounted /\ ~MicrotaskPending) =>
        /\ \A e \in exchanges :
              /\ e.pc = "reply" => ENABLED ReplyResolve(e, "ok")
              /\ e.pc = "tts" => ENABLED SpeechResolve(e, "started")
        /\ \A s \in sources : ENABLED SourceEnded(s)

\* The analysis of the first user turn is still pending when the reply of
\* the second user turn has been played to its end.
C14_Witness ==
    /\ AnalysisPending(2)
    /\ Len(messages) = 5
    /\ heap[4].role = "user" /\ heap[5].role = "model"
    /\ exchanges = {} /\ sources = {} /\ ~isSpeaking /\ ~isProcessing

\* C15: every step keeps the history as a prefix of the new history and
\* keeps role, text and timestamp of every Message object; a pronunciation
\* is only ever attached to an object that had none, and never changes.
C15_AppendOnly ==
    [][/\ Len(messages') >= Len(messages)
       /\ SubSeq(messages', 1, Len(messages)) = messages
       /\ Len(heap') >= Len(heap)
       /\ \A i \in 1..Len(heap) :
              /\ heap'[i].role = heap[i].role
              /\ heap'[i].text = heap[i].text
              /\ heap'[i].timestamp = heap[i].timestamp
              /\ heap[i].pronunciation # Undefined =>
                     heap'[i].pronunciation = heap[i].pronunciation
      ]_vars

\* A user turn, its reply and a fallback turn were appended, and a result
\* was attached to the user turn.
C15_Witness ==
    /\ Len(messages) = 4
    /\ heap[messages[2]].role = "user"
    /\ heap[messages[2]].pronunciation # Undefined
    /\ heap[messages[3]].text = TutorReplyText
    /\ heap[messages[4]].text = LoopFallbackText

\* C16: turnCount is the number of user turns in the history.
C16_TurnCountCountsUserTurns ==
    turnCount = Cardinality({ k \in 1..Len(messages) : heap[messages[k]].role = "user" })

\* The number of the user turn with message m among the user turns.
UserOrdinal(m) ==
    Cardinality({ k \in 1..Len(messages) :
                    heap[messages[k]].role = "user" /\ messages[k] <= m })

\* C17: the reply request of the Nth user turn carries turn index N and
\* maxTurns 5, and the wrap-up instruction exactly when N >= 5.
C17_RequestCarriesTurnIndex ==
    \A e \in exchanges : e.pc = "reply" =>
        /\ TutorRequest(e).turnCount = UserOrdinal(e.msg)
        /\ TutorRequest(e).maxTurns = 5
        /\ (TutorRequest(e).instruction = TutorInstruction(MAX_TURNS, MAX_TURNS))
              <=> (UserOrdinal(e.msg) >= 5)

\* C18: at most one source is playing.
C18_OnePlaybackAtATime == Cardinality(sources) <= 1

\* The analysis request of user turn m was made and has settled without a
\* result: none is pending and no result of that request exists.
AnalysisFailedFor(m) ==
    /\ heap[m].role = "user"
    /\ \A e \in exchanges : e.msg = m => e.pc # "encode"
    /\ \A a \in analyses : a.msg # m
    /\ \A i \in 1..Len(heap) :
           heap[i].pronunciation # Undefined => heap[i].pronunciation[1].request # m

\* C19: a user turn whose analysis request failed has no pronunciation.
C19_FailedAnalysisLeavesTurnUnscored ==
    \A m \in 1..Len(heap) : AnalysisFailedFor(m) => heap[m].pronunciation = Undefined

\* The synthesis of the greeting failed in this step: the initial load
\* ended without a playback.
GreetingSpeechFailed ==
    /\ greeting = "tts" /\ greeting' = "done"
    /\ faults' > faults

\* C20: when the synthesis of the greeting fails the history, with the
\* greeting in it, is unchanged, no source is started, the screen stays in
\* the call, no flag is raised, and with nothing else under way the system
\* is idle: the controls, disabled only by these flags, accept the user.
C20_GreetingFailureLeavesIdle ==
    [][GreetingSpeechFailed =>
          /\ messages' = messages /\ heap' = heap
          /\ heap'[messages'[1]] = NewGreeting
          /\ sources' = sources
          /\ appState' = appState
          /\ exchanges' = exchanges
          /\ isListening' = isListening
          /\ isProcessing' = isProcessing
          /\ isSpeaking' => isSpeaking
          /\ (recState = "idle" /\ exchanges = {} /\ sources = {}) =>
                 (~isListening' /\ ~isProcessing' /\ ~isSpeaking')
      ]_vars

\* The greeting's synthesis has failed, the system is idle, and a typed
\* first answer waits behind an enabled send button.
C20_Witness ==
    /\ greeting = "done" /\ faults = 1
    /\ Len(messages) = 1 /\ sources = {} /\ exchanges = {}
    /\ ~isListening /\ ~isProcessing /\ ~isSpeaking
    /\ inputMode = "text" /\ NonBlank(textInput)
    /\ ~SendButtonDisabled

\* The generation of a report failed in this step.
ReportFailed == reportsSettled' > reportsSettled /\ faults' > faults

\* C21: when the generation of the report fails the application shows the
\* feedback view with a report that has a comment, no corrections, no
\* vocabulary and a pronunciation average score of zero.
C21_FailedReportGivesDefault ==
    [][ReportFailed =>
          /\ appState' = "FEEDBACK_VIEW"
          /\ feedback' # Undefined
          /\ feedback'[1].overallComments # Undefined
          /\ feedback'[1].corrections = Some(<< >>)
          /\ feedback'[1].vocabulary = Some(<< >>)
          /\ feedback'[1].pronunciationReview # Undefined
          /\ AvgScore(feedback'[1]) = 0
      ]_vars

\* toggleMode ran in this step: nothing else writes inputMode.
ModeToggled == inputMode' # inputMode

\* C22: toggling away from voice while listening asks recognition to stop,
\* clears isListening and makes the mode text; toggling while not listening
\* changes the input mode and nothing else.
C22_ToggleStopsCapture ==
    [][ModeToggled =>
          IF isListening
          THEN /\ ~isListening'
               /\ recState' = RecognitionStop /\ recState' # "active"
               /\ inputMode = "voice" => inputMode' = "text"
          ELSE /\ inputMode' = IF inputMode = "voice" THEN "text" ELSE "voice"
               /\ UNCHANGED << messages, isListening, isSpeaking, isProcessing,
                               textInput, transcript, turnCount, transcriptRef,
                               heap, greeting, exchanges, analyses, sources,
                               settleTimers, noticeTimers, endTimers, captureVars,
                               recognitionVars, appVars, envVars >>
      ]_vars

\* The mode was toggled to text during a capture no stop tap had ended.
C22_Witness ==
    /\ inputMode = "text"
    /\ recState = "stopping"
    /\ ~isListening
    /\ settleTimers = << >> /\ noticeTimers = 0 /\ turnCount = 0

\* handleSendText accepted the typed text in this step: nothing else
\* empties the text input.
TextSubmitted == textInput # << >> /\ textInput' = << >>

\* C23: a text submission is accepted only with text that is not blank; it
\* sets isProcessing, appends exactly one user turn with that text, raises
\* turnCount by one and sends the reply and the analysis request without
\* audio, whatever the audio buffer holds.
C23_TextTurnCarriesNoAudio ==
    [][TextSubmitted =>
          LET m == Len(heap) + 1 IN
          /\ Trim(textInput) # << >>
          /\ isProcessing'
          /\ heap' = Append(heap, NewMessage("user", textInput))
          /\ messages' = Append(messages, m)
          /\ turnCount' = turnCount + 1
          /\ \E e \in exchanges' :
                 /\ exchanges' = exchanges \cup { e } /\ e \notin exchanges
                 /\ e.msg = m /\ e.pc = "reply" /\ e.audioBase64 = Undefined
          /\ \E a \in analyses' :
                 /\ analyses' = analyses \cup { a } /\ a \notin analyses
                 /\ a.msg = m /\ a.audioBase64 = Undefined
          /\ UNCHANGED << isListening, isSpeaking, audioChunksRef >>
      ]_vars

\* A typed turn is under way while the audio buffer holds a chunk.
C23_Witness ==
    /\ audioChunksRef # << >>
    /\ \E e \in exchanges : ~e.hasAudio /\ e.pc = "reply"
    /\ isProcessing

\* C24: without speech recognition the input mode is text, so that the
\* voice controls are not shown.
C24_UnsupportedFallsBackToText ==
    ~recognitionSupported => inputMode = "text"

\* C25: a step that writes to a Message object writes its pronunciation and
\* nothing else, and only when the object had none: the field is written at
\* most once, and role, text and timestamp are never written.
C25_PronunciationWrittenOnce ==
    [][\A i \in Written :
          /\ heap[i].pronunciation = Undefined
          /\ heap'[i].pronunciation # Undefined
          /\ heap'[i] = [ heap[i] EXCEPT !.pronunciation = heap'[i].pronunciation ]
      ]_vars

\* Two user turns with the same text each carry the result of the other's
\* request: the later result found the newer turn scored and skipped it.
C25_Witness ==
    \E i, j \in 1..Len(heap) :
        /\ i < j
        /\ heap[i].role = "user" /\ heap[j].role = "user"
        /\ heap[i].text = heap[j].text
        /\ heap[i].pronunciation # Undefined /\ heap[j].pronunciation # Undefined
        /\ heap[j].pronunciation[1].request = i
        /\ heap[i].pronunciation[1].request = j

\* The fragments of a list of results joined in order, first to last.
RECURSIVE Joined(_)
Joined(results) ==
    IF results = << >> THEN << >> ELSE Head(results) \o Joined(Tail(results))

\* A result event was delivered in this step.
ResultDelivered == Len(recResults') > Len(recResults)

\* The recognition session started in this step.
SessionStarted == recState = "starting" /\ recState' = "active"

\* The 800 ms timer fired in this step and submitted a turn.
SettleSubmitted ==
    /\ settleTimers # << >>
    /\ settleTimers' = Tail(settleTimers)
    /\ Len(heap') = Len(heap) + 1

\* C26: after a result event the transcript cell holds all fragments of the
\* event joined in order, the start of a capture empties the cell, and the
\* turn the settle timer submits has the text the cell held when it fired.
C26_CumulativeTranscript ==
    [][/\ ResultDelivered => /\ transcriptRef' = Joined(recResults')
                             /\ transcript' = transcriptRef'
       /\ SessionStarted => transcriptRef' = << >> /\ transcript' = << >>
       /\ SettleSubmitted => /\ heap'[Len(heap')].role = "user"
                             /\ heap'[Len(heap')].text = transcriptRef
      ]_vars

\* A turn was submitted whose text spans two result fragments.
C26_Witness ==
    \E m \in 1..Len(heap) :
        /\ heap[m].role = "user"
        /\ Len(heap[m].text) = MaxVoiceResults
        /\ MaxVoiceResults > 1

\* The recorder of mediaRecorderRef is capturing (the test of line 105).
Capturing == mediaRecorderRef # 0 /\ recorders[mediaRecorderRef].state = "recording"

\* C27: while a recorder is capturing no step creates a second recorder on
\* a second stream, replaces the recorder or removes chunks from the buffer.
C27_SecondStartIsNoOp ==
    [][Capturing =>
          /\ Len(recorders') = Len(recorders)
          /\ mediaRecorderRef' = mediaRecorderRef
          /\ Len(audioChunksRef') >= Len(audioChunksRef)
          /\ SubSeq(audioChunksRef', 1, Len(audioChunksRef)) = audioChunksRef
      ]_vars

\* The playback of source s ended in this step.
PlaybackEnded(s) == s \in sources /\ sources' = sources \ { s }

\* C28: the end of a playback sets isSpeaking to false and leaves the
\* recognition as it is: no start is requested, no capture begins and
\* isListening keeps its value.  When the handler reads a turnCount below
\* MAX_TURNS, or the history holds fewer than MAX_TURNS user turns, it
\* schedules no end of the session.
C28_PlaybackEndStartsNothing ==
    [][\A s \in sources : PlaybackEnded(s) =>
          /\ ~isSpeaking'
          /\ UNCHANGED << isListening, recognitionVars, captures, captureVars >>
          /\ (s.closure.turnCount < MAX_TURNS \/ UserTurns < MAX_TURNS) =>
                 endTimers' = endTimers
      ]_vars

\* The playback of a reply has ended with the turn count still below
\* MAX_TURNS: nothing is speaking, listening or scheduled, the microphone
\* button is enabled and no capture was ever started.
C28_Witness ==
    /\ turnCount = 1 /\ Len(messages) = 3
    /\ sources = {} /\ exchanges = {}
    /\ ~isSpeaking /\ ~isProcessing /\ ~isListening
    /\ inputMode = "voice" /\ recState = "idle" /\ captures = 0
    /\ endTimers = << >>

\* onEndSession is scheduled, or was invoked.
EndRequested ==
    \/ endTimers # << >>
    \/ reportRequests # << >>
    \/ appState # "CALL_ACTIVE"

\* C29: no end of the session is scheduled or made before MAX_TURNS user
\* turns were submitted.
C29_NoEndBeforeMaxTurns == EndRequested => UserTurns >= MAX_TURNS

\* The end of the session is scheduled while the call is still on screen.
C29_Witness ==
    /\ endTimers # << >>
    /\ appState = "CALL_ACTIVE"
    /\ reportRequests = << >>
    /\ UserTurns >= MAX_TURNS

\* C30: at most one exchange is under way: handleUserResponse is not
\* entered while the reply, the synthesis or the start of the playback of
\* an earlier call is outstanding.
C30_ExchangesNeverOverlap == Cardinality(exchanges) <= 1

\* C31: when the 800 ms timer submits a turn no capture is running: the
\* recognition session its stop action ended is stopping or over, and no
\* later session has started.
C31_SettleSubmitsOwnCapture ==
    [][SettleSubmitted => recState # "active"]_vars

\* The history up to and including Message m.
HistoryUpTo(m) ==
    LET k == CHOOSE i \in 1..Len(messages) : messages[i] = m
    IN  SubSeq(messages, 1, k)

\* C32: the history an exchange passes to getTutorResponse is the session
\* history as it was at the submission, in order, with the new user turn last.
C32_RequestCarriesFullHistory ==
    \A e \in exchanges : CurrentHistory(e) = HistoryUpTo(e.msg)

\* Exchange e came to its end in this step.
ExchangeOver(e) == e \in exchanges /\ \A x \in exchanges' : x.msg # e.msg

\* The synthesis of the reply of exchange e failed in this step.
SynthesisFailedFor(e) ==
    /\ e.pc = "tts"
    /\ ExchangeOver(e)
    /\ Len(heap') = Len(heap) + 1

\* C33: the step that ends an exchange, on the success path or on a
\* failure of the encoding, the reply, the synthesis or the playback, leaves
\* isProcessing false.  A failed synthesis starts no playback and does not
\* raise isSpeaking; with no other playback under way isSpeaking is false
\* and the text field and the microphone button are enabled.
C33_ExchangeEndsProcessing ==
    [][\A e \in exchanges :
          /\ ExchangeOver(e) => ~isProcessing'
          /\ SynthesisFailedFor(e) =>
                 /\ sources' = sources
                 /\ isSpeaking' = isSpeaking
                 /\ sources = {} => /\ ~isSpeaking'
                                    /\ ~TextInputDisabled'
                                    /\ ~VoiceButtonDisabled'
      ]_vars

\* The synthesis of a reply has failed: the reply and the fallback turn end
\* the history, and the system is idle.
C33_Witness ==
    /\ Len(messages) >= 4
    /\ heap[messages[Len(messages) - 1]].text = TutorReplyText
    /\ heap[messages[Len(messages)]].text = LoopFallbackText
    /\ exchanges = {} /\ sources = {}
    /\ ~isProcessing /\ ~isSpeaking
    /\ ~TextInputDisabled /\ ~VoiceButtonDisabled

\* C34: onEndSession is invoked at most once: at most one report request
\* is ever made.
C34_HandoffAtMostOnce == Len(reportRequests) <= 1

\* The stage that follows a stage in the cycle of the application.
NextStage(stage) ==
    CASE stage = "SETUP" -> "CALL_ACTIVE"
      [] stage = "CALL_ACTIVE" -> "FEEDBACK_LOADING"
      [] stage = "FEEDBACK_LOADING" -> "FEEDBACK_VIEW"
      [] stage = "FEEDBACK_VIEW" -> "SETUP"

\* startConversation rejected in this step.
StartFailed == startRequests' < startRequests /\ faults' > faults

\* C35: every step that changes appState moves it to the next stage of the
\* cycle, and a failed startConversation leaves it as it is.
C35_StagesInOrder ==
    [][/\ appState' # appState => appState' = NextStage(appState)
       /\ StartFailed => appState' = appState
      ]_vars

\* The 2 s timer fired in this step.
NoticeTimerFired == noticeTimers' < noticeTimers

\* C36: when the 2 s timer fires and the notice is still shown, the notice
\* is removed.
C36_NoticeIsRemoved ==
    [][(NoticeTimerFired /\ transcript = NoSpeechNotice) => transcript' = << >>]_vars

\* The recognition session ended in this step without a stop request.
EndedOnItsOwn == recState \in { "starting", "active" } /\ recState' = "idle"

\* C37: a recognition session that ends on its own leaves isListening false
\* and the recorder of the capture, if there is one, stopped; the history,
\* turnCount, the transcript, the flags isProcessing and isSpeaking, the
\* requests and the timers are as before.
C37_OwnEndOnlyStopsCapture ==
    [][EndedOnItsOwn =>
          /\ ~isListening'
          /\ mediaRecorderRef # 0 => recorders'[mediaRecorderRef].state = "inactive"
          /\ UNCHANGED << messages, heap, turnCount, isProcessing, isSpeaking,
                          transcript, transcriptRef, textInput, inputMode,
                          exchanges, analyses, sources, greeting,
                          settleTimers, noticeTimers, endTimers, recordTimers,
                          micRequests, audioChunksRef, mediaRecorderRef,
                          appState, reportRequests >>
      ]_vars

\* A capture that had recognised speech and was recording ended on its own:
\* the only fault of the run, with the greeting still being synthesized;
\* the recorder is stopped and has delivered its data, nothing was submitted.
C37_Witness ==
    /\ recState = "idle" /\ captures = 1 /\ faults = 1
    /\ ~isListening /\ ~isProcessing
    /\ Trim(transcriptRef) # << >>
    /\ greeting = "tts"
    /\ Len(heap) = 1 /\ turnCount = 0 /\ exchanges = {} /\ analyses = {}
    /\ settleTimers = << >> /\ noticeTimers = 0
    /\ Len(recorders) = 1 /\ recorders[1].state = "inactive"
    /\ audioChunksRef # << >>

=============================================================================
